---- MODULE Spec2Model ----
\* Model of echopype/process/process_base.py: the processing classes ProcessBase
\* and ProcessEK working on one EchoData session object `ed`.
\*
\* Real-valued quantities are kept exact.  A number that need not be whole is
\* a reduced fraction [num |-> n, den |-> d] with d > 0.  A decibel value is
\*     [rat |-> q, logs |-> <<t1, ..., tn>>]   meaning   q + SUM coef_i * log10(arg_i)
\* with q a fraction, where each term t is [coef, num, den, pi2] and arg = num / (den * pi^2) when
\* pi2 is TRUE and num / den otherwise.  log10 and 10 ** x are never evaluated:
\* they are carried as terms, so no rounding enters the model.
EXTENDS Integers, Sequences, FiniteSets, TLC

VARIABLES
    ed,             \* the EchoData session: range, Sv, Sp, Sv_path, Sp_path
    before,         \* value of ed when the last call was entered
    call,           \* the last call: operation and arguments
    result,         \* how the last call ended: return value or raised error
    printed,        \* messages the last call wrote with print()
    path_calls,     \* invocations of io.validate_proc_path made by the last call
    persist_calls,  \* invocations of ed._save_dataset made by the last call
    assigned,       \* fields of ed the last call bound by an assignment statement
    calc_range_calls \* number of invocations of self.calc_range on this session

vars == <<ed, before, call, result, printed, path_calls, persist_calls, assigned,
          calc_range_calls>>

\* The fields of ed are compared by content.  An assignment `ed.Sv = Sv` binds
\* the field to a newly built object even when its content equals what the
\* field held; `assigned` records every such binding, so a field that was
\* re-bound to an equal value is told apart from a field that was left alone.

\* ---------------------------------------------------------------- bounds
NumChannels == 2     \* size of the frequency dimension of ed.raw
NumPings == 3        \* size of the ping_time dimension of ed.raw
NumBins == 3         \* size of the range_bin dimension of ed.raw
MaxTile == 2         \* largest MVBS_ping_num / MVBS_range_bin_num tried
MaxRangeCalcs == 2   \* a session is followed up to this many calc_range calls

Channels == 1..NumChannels
Pings == 1..NumPings
Bins == 1..NumBins

\* ---------------------------------------------------------------- values
\* Python None and a present value.
None == [some |-> FALSE]
Some(v) == [some |-> TRUE, val |-> v]

\* A call that returned `v` (an option: None is Python's None).
Return(v) == [kind |-> "return", value |-> v]
\* A call that ended by an exception.  origin is "raise" for a raise statement
\* of this file, "runtime" for an exception the interpreter or a library raises
\* on the way (KeyError, TypeError, UnboundLocalError, ...), "collaborator"
\* for an exception coming out of an external collaborator.
Raise(type, msg, origin, line) ==
    [kind |-> "raise", type |-> type, msg |-> msg, origin |-> origin, line |-> line]
Idle == [kind |-> "idle"]

\* ---------------------------------------------------------------- ed.raw
\* The raw dataset is immutable input: nominal frequency per channel and
\* backscatter power per (frequency, ping_time, range_bin).
frequency == [c \in Channels |-> 19 * (c + 1)]
backscatter_r ==
    [c \in Channels |-> [i \in Pings |-> [j \in Bins |-> 0 - (100 * c + 10 * i + j)]]]

\* ---------------------------------------------------------------- inputs
\* Environment parameter sets handed to calibration: two complete ones that
\* differ in sound speed, one without the sound speed, one without absorption.
EnvParams ==
    { [speed_of_sound_in_water |-> 2, seawater_absorption |-> 1],
      [speed_of_sound_in_water |-> 3, seawater_absorption |-> 1],
      [seawater_absorption |-> 1],
      [speed_of_sound_in_water |-> 2] }

CalParams ==
    { [transmit_power |-> 1000, gain_correction |-> 20, equivalent_beam_angle |-> 0 - 20,
       transmit_duration_nominal |-> 1, sa_correction |-> 0, sample_interval |-> 1] }

CalTypes == {"Sv", "Sp", "TS"}

\* ---------------------------------------------------------------- dB values
RECURSIVE GCD(_, _)
GCD(a, b) == IF b = 0 THEN a ELSE GCD(b, a % b)

\* The fraction n / d (d > 0) in lowest terms.
Ratio(n, d) ==
    LET g == GCD(IF n < 0 THEN 0 - n ELSE n, d)
    IN  [num |-> n \div g, den |-> d \div g]
Whole(n) == Ratio(n, 1)
RatAdd(x, y) == Ratio(x.num * y.den + y.num * x.den, x.den * y.den)
RatScale(k, x) == Ratio(k * x.num, x.den)

Term(coef, num, den, pi2) == [coef |-> coef, num |-> num, den |-> den, pi2 |-> pi2]
dB(q, logs) == [rat |-> q, logs |-> logs]

\* ProcessEK.calc_sample_thickness: speed_of_sound * sample_interval / 2, a
\* true division: 3 * 1 / 2 is 3/2.
calc_sample_thickness(env_params, cal_params) ==
    Ratio(env_params.speed_of_sound_in_water * cal_params.sample_interval, 2)

\* The calc_range of the EK subclasses: distance of every sample from the
\* transducer, zero at the first sample and growing by one sample thickness
\* per range bin.
calc_range(env_params, cal_params) ==
    [c \in Channels |-> [i \in Pings |-> [j \in Bins |->
        RatScale(j - 1, calc_sample_thickness(env_params, cal_params))]]]

\* 20 * log10(range.where(range >= 1, other=1)): the argument is clamped to 1.
spreading_loss(r, factor) ==
    IF r.num >= r.den THEN Term(20 * factor, r.num, r.den, FALSE)
                      ELSE Term(20 * factor, 1, 1, FALSE)

\* 2 * seawater_absorption * range.
absorption_loss(env_params, r) == RatScale(2 * env_params.seawater_absorption, r)

\* One sample of Sv: backscatter_r + spreading_loss + absorption_loss - CSv
\* - 2 * sa_correction, with CSv = 10 log10(P) + 2 G + EBA
\* + 10 log10(wavelength^2 * tau * c / (32 pi^2)) and wavelength = c / f.
SvSample(c, i, j, rng, env_params, cal_params) ==
    LET r == rng[c][i][j]
        cw == env_params.speed_of_sound_in_water
    IN  dB(RatAdd(absorption_loss(env_params, r),
                  Whole(backscatter_r[c][i][j]
                        - 2 * cal_params.gain_correction - cal_params.equivalent_beam_angle
                        - 2 * cal_params.sa_correction)),
           << spreading_loss(r, 1),
              Term(0 - 10, cal_params.transmit_power, 1, FALSE),
              Term(0 - 10, cw * cw * cal_params.transmit_duration_nominal * cw,
                   frequency[c] * frequency[c] * 32, TRUE) >>)

\* One sample of Sp: backscatter_r + 2 * spreading_loss + absorption_loss - CSp,
\* with CSp = 10 log10(P) + 2 G + 10 log10(wavelength^2 / (16 pi^2)).
SpSample(c, i, j, rng, env_params, cal_params) ==
    LET r == rng[c][i][j]
        cw == env_params.speed_of_sound_in_water
    IN  dB(RatAdd(absorption_loss(env_params, r),
                  Whole(backscatter_r[c][i][j] - 2 * cal_params.gain_correction)),
           << spreading_loss(r, 2),
              Term(0 - 10, cal_params.transmit_power, 1, FALSE),
              Term(0 - 10, cw * cw, frequency[c] * frequency[c] * 16, TRUE) >>)

\* The calibrated dataset: the named variable plus the attached range.
Dataset(name, rng, env_params, cal_params) ==
    [name |-> name,
     data |-> [c \in Channels |-> [i \in Pings |-> [j \in Bins |->
                 IF name = "Sv" THEN SvSample(c, i, j, rng, env_params, cal_params)
                                ELSE SpSample(c, i, j, rng, env_params, cal_params)]]],
     range |-> rng]

\* io.validate_proc_path(ed, postfix, save_path) is a collaborator outside this
\* file.  It is handed the session, the postfix and the caller's save_path and
\* either returns the destination path or raises; it is taken to read the
\* session only.  This is the path it returns: the caller's save_path, or one
\* derived from the raw file and the postfix when none is given.
validate_proc_path(postfix, save_path) ==
    IF save_path = None THEN "raw" \o postfix ELSE save_path.val

\* One invocation of io.validate_proc_path(ed, postfix, save_path) and whether
\* it returned.
PathCall(postfix, save_path, path_ok) ==
    [postfix |-> postfix, save_path |-> save_path, ok |-> path_ok]

SavePaths == {None}

\* ---------------------------------------------------------------- session
\* ed.range, ed.Sv, ed.Sp hold None or an array / dataset; the path pointers
\* hold None or a path.  ed.Sv_clean is never assigned by this file.
EdInit == [range |-> None, Sv |-> None, Sp |-> None, Sv_clean |-> None,
           Sv_path |-> None, Sp_path |-> None]

\* RangeMissing without the cache test: the range is recomputed on every call.
RangeMissing_Always(e) == TRUE

\* `if ed.range is None:` -- the range is computed only while none is cached.
RangeMissing(e) == e.range = None

\* PathAfterSave with the two statements swapped: the pointer is assigned
\* before the save is attempted.
PathAfterSave_Early(old_path, new_path, persist_ok) == Some(new_path)

\* `ed._save_dataset(ds, path, ...)` followed by `ed.Sv_path = path`: the
\* pointer is assigned only when the save returned.
PathAfterSave(old_path, new_path, persist_ok) ==
    IF persist_ok THEN Some(new_path) ELSE old_path

\* One invocation of ed._save_dataset(ds, path, mode="w", save_format=...), the
\* persist collaborator: it either returns or raises, and is taken not to
\* write to the fields of the session modelled here.
PersistCall(ds, path, save_format, persist_ok) ==
    [dataset |-> ds, path |-> path, mode |-> "w", save_format |-> save_format,
     ok |-> persist_ok]

\* StoreProduct that also attaches the dataset to the session when it saves.
StoreProduct_AlsoHeld(e, ds, save, save_path, save_format, path_ok, persist_ok) ==
    LET postfix == "_" \o ds.name
        path == validate_proc_path(postfix, save_path)
        path_field == IF ds.name = "Sv" THEN "Sv_path" ELSE "Sp_path"
        held_ed == IF ds.name = "Sv" THEN [e EXCEPT !.Sv = Some(ds)]
                                     ELSE [e EXCEPT !.Sp = Some(ds)]
        saved_ed == IF ds.name = "Sv"
                    THEN [held_ed EXCEPT !.Sv_path = PathAfterSave(e.Sv_path, path, persist_ok)]
                    ELSE [held_ed EXCEPT !.Sp_path = PathAfterSave(e.Sp_path, path, persist_ok)]
    IN  IF save /\ ~path_ok
        THEN [ed |-> e, printed |-> << >>,
              path_calls |-> << PathCall(postfix, save_path, FALSE) >>,
              persist_calls |-> << >>, assigned |-> {},
              result |-> Raise("PathError", "validate_proc_path", "collaborator",
                               IF ds.name = "Sv" THEN 238 ELSE 262)]
        ELSE IF save
        THEN [ed |-> saved_ed,
              printed |-> << "saving calibrated " \o ds.name \o " to " \o path >>,
              path_calls |-> << PathCall(postfix, save_path, TRUE) >>,
              persist_calls |-> << PersistCall(ds, path, save_format, persist_ok) >>,
              assigned |-> IF persist_ok THEN {ds.name, path_field} ELSE {ds.name},
              result |-> IF persist_ok THEN Return(None)
                         ELSE Raise("PersistenceError", "_save_dataset", "collaborator",
                                    IF ds.name = "Sv" THEN 240 ELSE 264)]
        ELSE [ed |-> held_ed, printed |-> << >>, path_calls |-> << >>,
              persist_calls |-> << >>, assigned |-> {ds.name},
              result |-> Return(None)]

\* The save / attach block of one product (`if save: ... else: ed.Sv = Sv`).
\* e is the session after the range step, ds the finished dataset.  With save
\* set the path is validated (line 238 / 262), the message printed, the dataset
\* handed to persist (line 240 / 264) and the pointer assigned (line 241 /
\* 265); an exception of either collaborator leaves the call at its line.
\* Without save the dataset is bound to the held field (line 243 / 267).
StoreProduct(e, ds, save, save_path, save_format, path_ok, persist_ok) ==
    LET postfix == "_" \o ds.name
        path == validate_proc_path(postfix, save_path)
        path_field == IF ds.name = "Sv" THEN "Sv_path" ELSE "Sp_path"
        saved_ed == IF ds.name = "Sv"
                    THEN [e EXCEPT !.Sv_path = PathAfterSave(e.Sv_path, path, persist_ok)]
                    ELSE [e EXCEPT !.Sp_path = PathAfterSave(e.Sp_path, path, persist_ok)]
        held_ed == IF ds.name = "Sv" THEN [e EXCEPT !.Sv = Some(ds)]
                                     ELSE [e EXCEPT !.Sp = Some(ds)]
    IN  IF save /\ ~path_ok
        THEN [ed |-> e, printed |-> << >>,
              path_calls |-> << PathCall(postfix, save_path, FALSE) >>,
              persist_calls |-> << >>, assigned |-> {},
              result |-> Raise("PathError", "validate_proc_path", "collaborator",
                               IF ds.name = "Sv" THEN 238 ELSE 262)]
        ELSE IF save
        THEN [ed |-> saved_ed,
              printed |-> << "saving calibrated " \o ds.name \o " to " \o path >>,
              path_calls |-> << PathCall(postfix, save_path, TRUE) >>,
              persist_calls |-> << PersistCall(ds, path, save_format, persist_ok) >>,
              assigned |-> IF persist_ok THEN {path_field} ELSE {},
              result |-> IF persist_ok THEN Return(None)
                         ELSE Raise("PersistenceError", "_save_dataset", "collaborator",
                                    IF ds.name = "Sv" THEN 240 ELSE 264)]
        ELSE [ed |-> held_ed, printed |-> << >>, path_calls |-> << >>,
              persist_calls |-> << >>, assigned |-> {ds.name},
              result |-> Return(None)]

\* ProcessEK._cal_narrowband as a function of the session, the arguments and
\* the outcomes of the collaborators: the session it leaves, what it printed,
\* the collaborator calls it made, the fields it assigned, how it ended and
\* whether it invoked calc_range.
CalNarrowband(e, env_params, cal_params, cal_type, save, save_path, save_format, path_ok, persist_ok) ==
    LET compute == RangeMissing(e)
        rng == IF compute THEN calc_range(env_params, cal_params) ELSE e.range.val
        e1 == IF compute THEN [e EXCEPT !.range = Some(rng)] ELSE e
        a1 == IF compute THEN {"range"} ELSE {}
        n1 == IF compute THEN 1 ELSE 0
        quiet(s, r, a, n) == [ed |-> s, printed |-> << >>, path_calls |-> << >>,
                              persist_calls |-> << >>, assigned |-> a,
                              result |-> r, range_calls |-> n]
    IN  IF "speed_of_sound_in_water" \notin DOMAIN env_params
        THEN quiet(e, Raise("KeyError", "speed_of_sound_in_water", "runtime", 205), {}, 0)
        ELSE IF "seawater_absorption" \notin DOMAIN env_params
        THEN quiet(e1, Raise("KeyError", "seawater_absorption", "runtime", 212), a1, n1)
        ELSE IF cal_type \in {"Sv", "Sp"}
        THEN LET ds == Dataset(cal_type, rng, env_params, cal_params)
                 st == StoreProduct(e1, ds, save, save_path, save_format, path_ok, persist_ok)
             IN  [ed |-> st.ed, printed |-> st.printed, path_calls |-> st.path_calls,
                  persist_calls |-> st.persist_calls, assigned |-> a1 \cup st.assigned,
                  result |-> st.result, range_calls |-> n1]
        ELSE quiet(e1, Return(None), a1, n1)

\* A call of _cal_narrowband on the session.  path_ok and persist_ok are the
\* outcomes of io.validate_proc_path and ed._save_dataset: the first is
\* invoked only when save is set, the second only when the first returned.
\* The session is followed while fewer than MaxRangeCalcs range computations
\* were made.
_cal_narrowband(env_params, cal_params, cal_type, save, save_path, path_ok, persist_ok) ==
    /\ calc_range_calls < MaxRangeCalcs
    /\ save \/ path_ok
    /\ (save /\ path_ok) \/ persist_ok
    /\ \E out \in {CalNarrowband(ed, env_params, cal_params, cal_type, save, save_path,
                                  "zarr", path_ok, persist_ok)} :
        /\ before' = ed
        /\ call' = [op |-> "_cal_narrowband", env_params |-> env_params,
                    cal_params |-> cal_params, cal_type |-> cal_type, save |-> save,
                    save_path |-> save_path]
        /\ ed' = out.ed
        /\ result' = out.result
        /\ printed' = out.printed
        /\ path_calls' = out.path_calls
        /\ persist_calls' = out.persist_calls
        /\ assigned' = out.assigned
        /\ calc_range_calls' = calc_range_calls + out.range_calls

Calibrate ==
    \E env_params \in EnvParams, cal_params \in CalParams, cal_type \in CalTypes,
       save \in BOOLEAN, save_path \in SavePaths, path_ok \in BOOLEAN,
       persist_ok \in BOOLEAN :
        _cal_narrowband(env_params, cal_params, cal_type, save, save_path, path_ok,
                        persist_ok)

Init ==
    /\ ed = EdInit
    /\ before = EdInit
    /\ call = [op |-> "none"]
    /\ result = Idle
    /\ printed = << >>
    /\ path_calls = << >>
    /\ persist_calls = << >>
    /\ assigned = {}
    /\ calc_range_calls = 0

Next == Calibrate

Spec == Init /\ [][Next]_vars

\* ---------------------------------------------------------------- MVBS
\* A tile size as the caller gives it: one integer, or one integer per channel.
Scalar(n) == [scalar |-> TRUE, n |-> n]
PerChannel(ns) == [scalar |-> FALSE, per_channel |-> ns]

TileSizes == 1..MaxTile
\* Per-channel tile sizes that are not the same for all channels.
NonUniformSizes ==
    { [c \in Channels |-> IF c = 1 THEN a ELSE b] :
        a \in TileSizes, b \in TileSizes } \ { [c \in Channels |-> a] : a \in TileSizes }

Intervals == {None, Some(60)}

ProcParams ==
    [MVBS_source : {"Sv", "Sv_clean", "Sp"},
     MVBS_type : {"binned", "rolling", "median"},
     MVBS_time_interval : Intervals,
     MVBS_ping_num : {None} \cup {Some(n) : n \in TileSizes},
     MVBS_distance_interval : Intervals,
     MVBS_range_interval : Intervals,
     MVBS_range_bin_num : {None} \cup {Some(Scalar(n)) : n \in TileSizes}
                                 \cup {Some(PerChannel(ns)) : ns \in NonUniformSizes}]

\* ProcessBase._get_tile_params: how the call ends and what it printed.
GetTileParams(proc_params) ==
    IF proc_params.MVBS_time_interval # None
    THEN [result |-> Return(None),
          printed |-> << "Averaging by time interval is not yet implemented" >>]
    ELSE IF proc_params.MVBS_ping_num = None
    THEN [result |-> Raise("ValueError", "No ping tile size provided", "raise", 79),
          printed |-> << >>]
    ELSE IF proc_params.MVBS_distance_interval # None
    THEN [result |-> Return(None),
          printed |-> << "Averaging by distance interval is not yet implemented" >>]
    ELSE IF proc_params.MVBS_range_interval # None
    THEN [result |-> Return(None),
          printed |-> << "Averaging by range inteval is not yet implemented" >>]
    ELSE IF proc_params.MVBS_range_bin_num = None
    THEN [result |-> Raise("ValueError", "No range_bin tile size provided", "raise", 93),
          printed |-> << >>]
    ELSE [result |-> Return(Some([pings_per_tile |-> proc_params.MVBS_ping_num.val,
                                  range_bins_per_tile |-> proc_params.MVBS_range_bin_num.val])),
          printed |-> << >>]

\* A value in the linear domain: 10 ** (x / 10) of a dB value, or the NaN that
\* coarsen pads with.
Linear(x) == [nan |-> FALSE, pow10_tenth_of |-> x]
NaN == [nan |-> TRUE]

\* Length of an axis after coarsen's boundary='pad': the next multiple of the
\* window (xarray: pad = window * int(size / window) - size, plus window if < 0).
PaddedSize(size, window) ==
    LET pad == window * (size \div window) - size
    IN  size + (IF pad < 0 THEN pad + window ELSE pad)

\* The mean of one window that counts the padding as samples of value zero.
WindowMean_PadAsZero(window) ==
    [sum_of |-> SelectSeq(window, LAMBDA x : ~x.nan), n |-> Len(window)]

\* .mean() of one window: NaN entries are skipped, the sum of the others is
\* divided by their number.
WindowMean(window) ==
    LET real == SelectSeq(window, LAMBDA x : ~x.nan)
    IN  [sum_of |-> real, n |-> Len(real)]

\* Sv_linear.coarsen(ping_time=p, range_bin=r, boundary='pad').mean() followed
\* by 10 * log10: one value per channel and tile.
Coarsen(lin, p, r) ==
    LET np == PaddedSize(NumPings, p)
        nr == PaddedSize(NumBins, r)
        padded(c, i, j) == IF i <= NumPings /\ j <= NumBins THEN lin[c][i][j] ELSE NaN
        window(c, t, u) ==
            [k \in 1..(p * r) |->
                padded(c, (t - 1) * p + ((k - 1) \div r) + 1, (u - 1) * r + ((k - 1) % r) + 1)]
    IN  [c \in Channels |-> [t \in 1..(np \div p) |-> [u \in 1..(nr \div r) |->
            [log10_times_10_of_mean |-> WindowMean(window(c, t, u))]]]]

\* len(np.unique(range_bins_per_tile)).
NumUnique(size) ==
    IF size.scalar THEN 1 ELSE Cardinality({size.per_channel[c] : c \in Channels})

\* ProcessBase.get_MVBS on session e: how the call ends and what it printed.
GetMVBS(e, proc_params) ==
    LET src == proc_params.MVBS_source
        held == IF src = "Sv" THEN e.Sv ELSE e.Sv_clean
        tile == GetTileParams(proc_params)
        quiet(r) == [result |-> r, printed |-> << >>]
    IN  IF src \notin {"Sv", "Sv_clean"}
        THEN quiet(Raise("ValueError", "MVBS_source must be either Sv or Sv_clean", "raise", 126))
        ELSE IF held = None
        THEN quiet(Raise("AttributeError", "NoneType has no attribute " \o src, "runtime", 124))
        ELSE IF tile.result.kind = "raise"
        THEN tile
        ELSE IF tile.result.value = None
        THEN [result |-> Raise("TypeError", "cannot unpack non-iterable NoneType object",
                               "runtime", 128),
              printed |-> tile.printed]
        ELSE LET pings_per_tile == tile.result.value.val.pings_per_tile
                 range_bins_per_tile == tile.result.value.val.range_bins_per_tile
                 Sv_linear == [c \in Channels |-> [i \in Pings |-> [j \in Bins |->
                                  Linear(held.val.data[c][i][j])]]]
             IN  IF proc_params.MVBS_type = "binned"
                 THEN IF NumUnique(range_bins_per_tile) = 1
                      THEN IF range_bins_per_tile.scalar
                           THEN quiet(Return(Some(Coarsen(Sv_linear, pings_per_tile,
                                                          range_bins_per_tile.n))))
                           ELSE quiet(Raise("TypeError", "window is not an integer",
                                            "runtime", 132))
                      ELSE quiet(Raise("UnboundLocalError", "MVBS", "runtime", 140))
                 ELSE IF proc_params.MVBS_type = "rolling"
                 THEN quiet(Raise("UnboundLocalError", "MVBS", "runtime", 140))
                 ELSE quiet(Raise("ValueError", "MVBS_type must be either binned or rolling",
                                  "raise", 139))

\* The pending call is _get_tile_params: run it.
_get_tile_params ==
    /\ call.op = "_get_tile_params" /\ result = Idle
    /\ \E out \in {GetTileParams(call.proc_params)} :
        /\ result' = out.result
        /\ printed' = out.printed
    /\ UNCHANGED <<ed, before, call, path_calls, persist_calls, assigned, calc_range_calls>>

\* The pending call is get_MVBS: run it.
get_MVBS ==
    /\ call.op = "get_MVBS" /\ result = Idle
    /\ \E out \in {GetMVBS(ed, call.proc_params)} :
        /\ result' = out.result
        /\ printed' = out.printed
    /\ UNCHANGED <<ed, before, call, path_calls, persist_calls, assigned, calc_range_calls>>

\* Sessions on which aggregation is called: a fresh one, one on which Sv was
\* calibrated and kept in memory, one on which Sv was calibrated and saved.
MVBSSessions ==
    { [ed |-> EdInit, range_calls |-> 0] }
        \cup { [ed |-> o.ed, range_calls |-> o.range_calls] :
                o \in { CalNarrowband(EdInit, env_params, cal_params, "Sv", save, None,
                                      "zarr", TRUE, TRUE) :
                          env_params \in {x \in EnvParams :
                              DOMAIN x = {"speed_of_sound_in_water", "seawater_absorption"}
                              /\ x.speed_of_sound_in_water = 2},
                          cal_params \in CalParams, save \in BOOLEAN } }

InitMVBS ==
    /\ \E s \in MVBSSessions : ed = s.ed /\ before = s.ed /\ calc_range_calls = s.range_calls
    /\ \E op \in {"_get_tile_params", "get_MVBS"}, proc_params \in ProcParams :
        call = [op |-> op, proc_params |-> proc_params]
    /\ result = Idle
    /\ printed = << >>
    /\ path_calls = << >>
    /\ persist_calls = << >>
    /\ assigned = {}

NextMVBS == _get_tile_params \/ get_MVBS

SpecMVBS == InitMVBS /\ [][NextMVBS]_vars

\* ---------------------------------------------------------------- sound speed
\* env_params as handed to calc_sound_speed: None, complete, or lacking a key.
SoundSpeedEnvs ==
    {None} \cup
    { Some(e) : e \in
        { [water_salinity |-> 35, water_temperature |-> 10, water_pressure |-> 0],
          [water_salinity |-> 30, water_temperature |-> 4, water_pressure |-> 50],
          [water_salinity |-> 0, water_temperature |-> 20, water_pressure |-> 0],
          [water_temperature |-> 10, water_pressure |-> 0],
          [water_salinity |-> 35, water_pressure |-> 0],
          [water_salinity |-> 35, water_temperature |-> 10] } }

\* ProcessBase.calc_sound_speed.  in_file tells whether the Environment group
\* of the raw file holds sound_speed_indicative.  The two ValueError(...)
\* expressions that are built but not raised leave the function at its end,
\* which returns None.
CalcSoundSpeed(env_params, src, formula_source, in_file) ==
    IF src = "file"
    THEN IF in_file
         THEN Return(Some([from |-> "ds_env.sound_speed_indicative"]))
         ELSE Return(None)
    ELSE IF src = "user"
    THEN IF env_params = None
         THEN Raise("ValueError", "env_params required for calculating sound speed",
                    "raise", 25)
         ELSE IF "water_salinity" \notin DOMAIN env_params.val
         THEN Raise("KeyError", "water_salinity", "runtime", 26)
         ELSE IF "water_temperature" \notin DOMAIN env_params.val
         THEN Raise("KeyError", "water_temperature", "runtime", 27)
         ELSE IF "water_pressure" \notin DOMAIN env_params.val
         THEN Raise("KeyError", "water_pressure", "runtime", 28)
         ELSE Return(Some([from |-> "uwa.calc_sound_speed",
                           salinity |-> env_params.val.water_salinity,
                           temperature |-> env_params.val.water_temperature,
                           pressure |-> env_params.val.water_pressure,
                           formula_source |-> formula_source]))
    ELSE Return(None)

\* The pending call is calc_sound_speed: run it.
calc_sound_speed ==
    /\ call.op = "calc_sound_speed" /\ result = Idle
    /\ result' = CalcSoundSpeed(call.env_params, call.src, call.formula_source, call.in_file)
    /\ UNCHANGED <<ed, before, call, printed, path_calls, persist_calls, assigned,
                 calc_range_calls>>

InitSoundSpeed ==
    /\ ed = EdInit /\ before = EdInit /\ calc_range_calls = 0
    /\ \E env_params \in SoundSpeedEnvs, src \in {"file", "user", "guess"},
          formula_source \in {"Mackenzie", "Chen"}, in_file \in BOOLEAN :
        call = [op |-> "calc_sound_speed", env_params |-> env_params, src |-> src,
                formula_source |-> formula_source, in_file |-> in_file]
    /\ result = Idle
    /\ printed = << >>
    /\ path_calls = << >>
    /\ persist_calls = << >>
    /\ assigned = {}

NextSoundSpeed == calc_sound_speed

SpecSoundSpeed == InitSoundSpeed /\ [][NextSoundSpeed]_vars

\* ---------------------------------------------------------------- sa correction
\* Pulse lengths in units of 2^-30 s, so that every value is a double without
\* rounding (262144 is 2^-12 s, about 244 microseconds).  Per-channel
\* pulse_length tables: one with well separated entries, one whose two entries
\* lie within np.isclose's tolerance of each other.
PulseTables == { << 262144, 524288 >>, << 262144, 262150 >> }
TransmittedPulses == { 262144, 524288, 786432 }

\* transmit_duration_nominal of one channel over the pings: value a, and value
\* b at the last ping.
Durations == { [i \in Pings |-> IF i < NumPings THEN a ELSE b] :
                 a \in TransmittedPulses, b \in TransmittedPulses }

\* ds_vend.sa_correction: one row per channel, one entry per table column.
sa_correction_table == [c \in Channels |-> << 0 - 10 * c, 0 - (10 * c + 5) >>]

Abs(x) == IF x < 0 THEN 0 - x ELSE x

\* np.isclose(a, b) with the default rtol=1e-5, atol=1e-8: the double test
\* |a - b| <= atol + rtol * |b|.  On integers in units of 2^-30 s the operands
\* and their difference are exact doubles, and the test reads
\* 10^8 * |a - b| <= 2^30 + 1000 * |b|.  The two sides are never equal (the
\* right side ends in 824), so they differ by at least 1 in about 2 * 10^9,
\* far more than the rounding of atol, rtol, the product and the sum: the
\* double comparison and the integer one agree.  Holds for |a|, |b| below
\* 2^20, which also keeps the sum within 32 bits.
IsClose(a, b) == Abs(a - b) <= (1073741824 + 1000 * Abs(b)) \div 100000000

\* np.argwhere(np.isclose(pulse, table)).squeeze(): the matching positions.
MatchIdx(pulse, table) == { k \in 1..Len(table) : IsClose(pulse, table[k]) }

\* ProcessEK.calc_sa_correction.  has_sa: 'sa_correction' in ds_vend.
\* With one match in every channel the selection is one scalar per channel.
\* Otherwise nothing in the function tests the number of matches: np.array(idx)
\* fails on index arrays of different lengths, and index arrays of one common
\* length other than one give a 2-D selection that xr.DataArray(...,
\* dims='frequency') rejects.
CalcSaCorrection(has_sa, pulse_length_table, transmit_duration_nominal) ==
    LET columns == { [c \in Channels |-> transmit_duration_nominal[c][i]] : i \in Pings }
        unique_pulse_length == CHOOSE col \in columns : TRUE
        idx == [c \in Channels |-> MatchIdx(unique_pulse_length[c], pulse_length_table[c])]
        sizes == { Cardinality(idx[c]) : c \in Channels }
    IN  IF ~has_sa
        THEN Raise("ValueError", "sa_correction not found in raw data!", "raise", 179)
        ELSE IF Cardinality(columns) * NumChannels # NumChannels
        THEN Raise("ValueError", "Pulse length changes over time", "raise", 186)
        ELSE IF sizes = {1}
        THEN Return(Some([c \in Channels |->
                            sa_correction_table[c][CHOOSE k \in idx[c] : TRUE]]))
        ELSE IF Cardinality(sizes) > 1
        THEN Raise("ValueError", "inhomogeneous shape", "runtime", 190)
        ELSE Raise("ValueError", "different number of dimensions on data and dims",
                   "runtime", 192)

\* The pending call is calc_sa_correction: run it.
calc_sa_correction ==
    /\ call.op = "calc_sa_correction" /\ result = Idle
    /\ result' = CalcSaCorrection(call.has_sa, call.pulse_length_table,
                                  call.transmit_duration_nominal)
    /\ UNCHANGED <<ed, before, call, printed, path_calls, persist_calls, assigned,
                 calc_range_calls>>

InitSaCorrection ==
    /\ ed = EdInit /\ before = EdInit /\ calc_range_calls = 0
    /\ \E has_sa \in BOOLEAN, pulse_length_table \in [Channels -> PulseTables],
          transmit_duration_nominal \in [Channels -> Durations] :
        call = [op |-> "calc_sa_correction", has_sa |-> has_sa,
                pulse_length_table |-> pulse_length_table,
                transmit_duration_nominal |-> transmit_duration_nominal]
    /\ result = Idle
    /\ printed = << >>
    /\ path_calls = << >>
    /\ persist_calls = << >>
    /\ assigned = {}

NextSaCorrection == calc_sa_correction

SpecSaCorrection == InitSaCorrection /\ [][NextSaCorrection]_vars

\* ================================================================ claims
\* ---------------------------------------------------------------- calibration
IsCal == call.op = "_cal_narrowband"
CompleteEnv(env_params) ==
    {"speed_of_sound_in_water", "seawater_absorption"} \subseteq DOMAIN env_params

\* C4: a _cal_narrowband call whose cal_type is neither Sv nor Sp fails with an
\* error and leaves every field of the session as it was before the call.
C4_UnsupportedProductFails ==
    (IsCal /\ call.cal_type \notin {"Sv", "Sp"}) =>
        (result.kind = "raise" /\ ed = before)

\* The calibrated products in existence: those held on the session and those
\* handed to the persist collaborator by the last call.
Products ==
    {x.val : x \in {y \in {ed.Sv, ed.Sp} : y.some}}
        \cup {persist_calls[k].dataset : k \in 1..Len(persist_calls)}

\* C5: over any sequence of Sv and Sp calibration calls calc_range is invoked at
\* most once, by a call that found ed.range None; a cached range is neither
\* replaced nor re-assigned, and every product carries it, so Sv and Sp share
\* one range.
C5_RangeComputedOnce ==
    /\ calc_range_calls <= 1
    /\ (ed.range = None) <=> (calc_range_calls = 0)
    /\ "range" \in assigned => (IsCal /\ before.range = None /\ ed.range # None)
    /\ before.range # None => ed.range = before.range
    /\ \A p \in Products : ed.range = Some(p.range)
    /\ (ed.Sv.some /\ ed.Sp.some) => ed.Sv.val.range = ed.Sp.val.range

\* C5 witness: Sv and Sp are both held, computed under different sound speeds,
\* and the second one reused the range the first call cached.
C5_Witness ==
    /\ IsCal /\ call.cal_type = "Sp" /\ ~call.save /\ result.kind = "return"
    /\ CompleteEnv(call.env_params)
    /\ before.Sv.some /\ ~before.Sp.some /\ ed.Sp.some
    /\ "range" \notin assigned
    /\ ed.range # Some(calc_range(call.env_params, call.cal_params))
    /\ ed.Sp.val.range = ed.Sv.val.range

\* C6 as stated: a calibration call leaves every field of the session unchanged.
C6_NoSideEffect == IsCal => ed = before

\* The fields of the session.
EdFields == {"range", "Sv", "Sp", "Sv_clean", "Sv_path", "Sp_path"}

\* The one product field a call with cal_type t and the given save may assign.
ProductField(t, save) ==
    IF t = "Sv" THEN (IF save THEN "Sv_path" ELSE "Sv")
                ELSE (IF save THEN "Sp_path" ELSE "Sp")

\* C6 amended: a calibration call writes to the session in these places only:
\* ed.range, when it was None; for cal_type Sv at most one of ed.Sv
\* (save=False) and ed.Sv_path (save=True), never the Sp fields; symmetrically
\* for Sp; for any other cal_type no product field; ed.Sv_clean never.  A
\* field the call does not assign keeps its value.
C6_FrameOfCalibration ==
    IsCal =>
        /\ assigned \subseteq EdFields
        /\ \A f \in EdFields \ assigned : ed[f] = before[f]
        /\ "range" \in assigned => before.range = None
        /\ assigned \ {"range"} \subseteq
             (IF call.cal_type \in {"Sv", "Sp"}
              THEN {ProductField(call.cal_type, call.save)} ELSE {})

\* C6 witness: one call both cached the range and attached Sv to the session.
C6_Witness ==
    /\ IsCal /\ call.cal_type = "Sv" /\ ~call.save
    /\ assigned = {"range", "Sv"}
    /\ before.range = None /\ ed.range # None
    /\ before.Sv = None /\ ed.Sv # None
    /\ ed.Sp = before.Sp /\ ed.Sp_path = before.Sp_path /\ ed.Sv_path = before.Sv_path

\* The fields of the session a call with cal_type t works on.
HeldField(e, t) == IF t = "Sv" THEN e.Sv ELSE e.Sp
PathField(e, t) == IF t = "Sv" THEN e.Sv_path ELSE e.Sp_path
HeldName(t) == t
PathName(t) == t \o "_path"

\* The last call left field `name` alone: not assigned, value as before.
Untouched(name) == name \notin assigned /\ ed[name] = before[name]

\* The save=True / save=False / persist-raises behaviour C10 describes, for
\* the product t of the last call.
SaveOrHold(t) ==
    /\ call.save =>
        /\ Len(persist_calls) = 1
        /\ persist_calls[1].dataset.name = t
        /\ persist_calls[1].dataset.range = ed.range.val
        /\ Len(path_calls) = 1 /\ path_calls[1].ok
        /\ persist_calls[1].path = validate_proc_path("_" \o t, call.save_path)
        /\ Untouched(HeldName(t))
        /\ persist_calls[1].ok =>
             /\ result = Return(None)
             /\ PathField(ed, t) = Some(persist_calls[1].path)
             /\ PathName(t) \in assigned
        /\ ~persist_calls[1].ok =>
             /\ result.kind = "raise" /\ result.type = "PersistenceError"
             /\ result.origin = "collaborator"
             /\ Untouched(PathName(t))
    /\ ~call.save =>
        /\ persist_calls = << >> /\ path_calls = << >>
        /\ result = Return(None)
        /\ HeldName(t) \in assigned
        /\ HeldField(ed, t).some /\ HeldField(ed, t).val.name = t
        /\ Untouched(PathName(t))

\* The last call failed before its save block: a required key of env_params
\* was missing, or path validation raised.  Decided by the inputs of the call
\* and the outcome of the path collaborator.
FailedBeforeSave ==
    \/ ~CompleteEnv(call.env_params)
    \/ (call.save /\ Len(path_calls) = 1 /\ ~path_calls[1].ok)

AnyInterval(proc_params) ==
    \/ proc_params.MVBS_time_interval # None
    \/ proc_params.MVBS_distance_interval # None
    \/ proc_params.MVBS_range_interval # None

Done(op) == call.op = op /\ result # Idle

\* get_MVBS was called with a source that is held on the session, a ping tile
\* size, a range_bin tile size and no interval option.
SizedByCounts ==
    /\ Done("get_MVBS")
    /\ call.proc_params.MVBS_source = "Sv" /\ ed.Sv.some
    /\ ~AnyInterval(call.proc_params)
    /\ call.proc_params.MVBS_ping_num.some
    /\ call.proc_params.MVBS_range_bin_num.some

\* C1: with any of MVBS_time_interval, MVBS_distance_interval or
\* MVBS_range_interval given, _get_tile_params and get_MVBS end by raising,
\* print no diagnostic and do not return None.
C1_IntervalTilingRaises ==
    ((Done("_get_tile_params") \/ Done("get_MVBS")) /\ AnyInterval(call.proc_params)) =>
        (result.kind = "raise" /\ printed = << >>)

\* C2: get_MVBS with a valid source, valid tile counts and MVBS_type = rolling
\* ends by an error raised for the unsupported mode, not by a result and not by
\* an error of the interpreter about the unassigned MVBS.
C2_RollingNotSupported ==
    (SizedByCounts /\ call.proc_params.MVBS_range_bin_num.val.scalar
        /\ call.proc_params.MVBS_type = "rolling") =>
        (result.kind = "raise" /\ result.origin = "raise")

\* C3: get_MVBS with MVBS_type = binned and more than one distinct
\* range_bins_per_tile ends by an error raised at the uniformity check, before
\* the return statement is reached.
C3_NonUniformFailsFast ==
    (SizedByCounts /\ call.proc_params.MVBS_type = "binned"
        /\ NumUnique(call.proc_params.MVBS_range_bin_num.val) > 1) =>
        (result.kind = "raise" /\ result.origin = "raise" /\ result.line < 140)

\* C7: binned aggregation with tile sizes p and r over NumPings x NumBins
\* samples gives ceil(NumPings / p) x ceil(NumBins / r) tiles per channel; the
\* mean of a tile is taken over exactly the samples of the plane that fall in
\* it and divided by their number; with exact multiples every tile is full;
\* a tile that is not full is the last one on an axis.
C7_TilesPaddedNotDropped ==
    (Done("get_MVBS") /\ result.kind = "return") =>
        LET p == call.proc_params.MVBS_ping_num.val
            r == call.proc_params.MVBS_range_bin_num.val.n
            tiles_p == (NumPings + p - 1) \div p
            tiles_r == (NumBins + r - 1) \div r
            data == ed.Sv.val.data
            inside(t, u) == { ij \in Pings \X Bins :
                                /\ (t - 1) * p < ij[1] /\ ij[1] <= t * p
                                /\ (u - 1) * r < ij[2] /\ ij[2] <= u * r }
        IN  /\ result.value.some
            /\ (NumPings % p = 0 /\ NumBins % r = 0) =>
                    (tiles_p * p = NumPings /\ tiles_r * r = NumBins)
            /\ \A c \in Channels :
                /\ Len(result.value.val[c]) = tiles_p
                /\ \A t \in 1..tiles_p :
                    /\ Len(result.value.val[c][t]) = tiles_r
                    /\ \A u \in 1..tiles_r :
                        LET m == result.value.val[c][t][u].log10_times_10_of_mean
                        IN  /\ m.n = Cardinality(inside(t, u))
                            /\ m.n >= 1
                            /\ Len(m.sum_of) = m.n
                            /\ {m.sum_of[k] : k \in 1..Len(m.sum_of)} =
                                 {Linear(data[c][ij[1]][ij[2]]) : ij \in inside(t, u)}
                            /\ (NumPings % p = 0 /\ NumBins % r = 0) => m.n = p * r
                            /\ m.n < p * r => (t = tiles_p \/ u = tiles_r)

\* C7 witness: an aggregation whose last tile on both axes is padded, next to
\* a first tile that is full.
C7_Witness ==
    /\ Done("get_MVBS") /\ result.kind = "return"
    /\ Len(result.value.val[1]) >= 2 /\ Len(result.value.val[1][1]) >= 2
    /\ LET p == call.proc_params.MVBS_ping_num.val
           r == call.proc_params.MVBS_range_bin_num.val.n
           first == result.value.val[1][1][1].log10_times_10_of_mean
           last == result.value.val[1][Len(result.value.val[1])]
                       [Len(result.value.val[1][1])].log10_times_10_of_mean
       IN  first.n = p * r /\ last.n < first.n /\ NumPings % p # 0 /\ NumBins % r # 0

\* ---------------------------------------------------------------- sound speed
\* C9: every call of calc_sound_speed returns a sound-speed value or raises;
\* it never ends normally with nothing.
C9_SoundSpeedOrError ==
    Done("calc_sound_speed") =>
        (result.kind = "raise" \/ (result.kind = "return" /\ result.value.some))

\* ---------------------------------------------------------------- sa correction
\* The call got as far as matching: the table is there and the pulse length of
\* every channel is constant over the pings.
ReachedMatching ==
    /\ Done("calc_sa_correction") /\ call.has_sa
    /\ \A c \in Channels : \A i \in Pings :
          call.transmit_duration_nominal[c][i] = call.transmit_duration_nominal[c][1]

\* Number of table entries of channel c that match its transmitted pulse length.
Matches(c) ==
    Cardinality(MatchIdx(call.transmit_duration_nominal[c][1], call.pulse_length_table[c]))

\* C8: when some channel's pulse length matches zero or several table entries,
\* calc_sa_correction ends by an error raised for the ambiguous match and
\* returns no result.
C8_AmbiguousMatchRaises ==
    (ReachedMatching /\ \E c \in Channels : Matches(c) # 1) =>
        (result.kind = "raise" /\ result.origin = "raise")

====
